---- MODULE Spec2Model ----
(***************************************************************************)
(* Model of library/rook_ceph.py: the Ansible module that downloads the    *)
(* Rook-Ceph manifests, rewrites operator.yaml, cluster.yaml and           *)
(* storageclass.yaml from the "deploy" parameters, applies them with       *)
(* kubectl, and the "reset" path that deletes the manifests and wipes the  *)
(* local block devices.                                                    *)
(*                                                                         *)
(* Python values are modelled as follows.  A dict is a function whose      *)
(* DOMAIN is its set of keys.  A list is a sequence.  A value that may be  *)
(* None (what dict.get returns for a missing or null key) is None or       *)
(* Some(v).  Strings the code computes with (str(), f-strings,             *)
(* startswith) are sequences of one-character strings; strings the code    *)
(* only copies or compares are TLA+ strings.                               *)
(***************************************************************************)
EXTENDS Integers, Sequences, FiniteSets, TLC

VARIABLES
    params,        \* module.params: gather_facts, deploy, reset
    remote,        \* the manifests served for the requested rook version
    hostname,      \* socket.gethostname() of the machine running the module
    lsblk,         \* output of the lsblk | jq pipeline on that machine
    pc,            \* position of main/run_task/deploy/reset
    files,         \* the parsed contents of SOURCE/<file> on disk
    written,       \* manifests re-serialised by yaml.dump / yaml.dump_all
    cmds,          \* the os.system commands issued so far, in order
    idx,           \* position of the running "for file in FILES" / wipe loop
    num_nodes,     \* deploy's local num_nodes (bound when cluster.yaml is patched)
    node_volumes,  \* reset's local node_volumes
    rv,            \* value returned by deploy()/reset(): "none", "True", "False"
    ret,           \* run_task's ret dict
    err,           \* the exception in flight ("" when none)
    result         \* what main hands to exit_json / fail_json

vars == <<params, remote, hostname, lsblk, pc, files, written, cmds, idx,
          num_nodes, node_volumes, rv, ret, err, result>>

-----------------------------------------------------------------------------
(* Bounds *)

\* longest ceph.nodes list in the topology sweep and in reset
MaxNodes == 4
\* longest ceph.nodes list where image and manifest shapes are swept too
MaxNodesCross == 1

-----------------------------------------------------------------------------
(* Python helpers *)

None == [some |-> FALSE]
Some(v) == [some |-> TRUE, val |-> v]

\* d[k] = v on a dict
DictSet(d, k, v) == [x \in (DOMAIN d) \cup {k} |-> IF x = k THEN v ELSE d[x]]

Digits == <<"0", "1", "2", "3", "4", "5", "6", "7", "8", "9">>

RECURSIVE StrNat(_)
StrNat(n) == IF n < 10 THEN <<Digits[n + 1]>>
             ELSE StrNat(n \div 10) \o <<Digits[(n % 10) + 1]>>

\* str(n) for an int
str(n) == IF n < 0 THEN <<"-">> \o StrNat(0 - n) ELSE StrNat(n)

\* s.startswith(p)
startswith(s, p) == Len(s) >= Len(p) /\ SubSeq(s, 1, Len(p)) = p

min(a, b) == IF a <= b THEN a ELSE b

-----------------------------------------------------------------------------
(* Module constants *)

CrdsYaml == <<"c", "r", "d", "s", ".", "y", "a", "m", "l">>
CommonYaml == <<"c", "o", "m", "m", "o", "n", ".", "y", "a", "m", "l">>
OperatorYaml == <<"o", "p", "e", "r", "a", "t", "o", "r", ".", "y", "a", "m", "l">>
ClusterYaml == <<"c", "l", "u", "s", "t", "e", "r", ".", "y", "a", "m", "l">>
StorageclassYaml ==
    <<"s", "t", "o", "r", "a", "g", "e", "c", "l", "a", "s", "s", ".", "y", "a", "m", "l">>
ToolboxYaml == <<"t", "o", "o", "l", "b", "o", "x", ".", "y", "a", "m", "l">>

\* FILES with cluster.yaml listed ahead of operator.yaml
FILES_ClusterFirst ==
    <<CrdsYaml, CommonYaml, ClusterYaml, OperatorYaml, StorageclassYaml,
      ToolboxYaml>>

\* the keys of FILES, in insertion order (the order "for file in FILES" visits)
FILES == <<CrdsYaml, CommonYaml, OperatorYaml, ClusterYaml, StorageclassYaml,
           ToolboxYaml>>

Operator == <<"o", "p", "e", "r", "a", "t", "o", "r">>
Dev == <<"/", "d", "e", "v", "/">>
Ceph == <<"c", "e", "p", "h">>

-----------------------------------------------------------------------------
(* Inputs: the deploy/reset parameters *)

DevSdc == <<"/", "d", "e", "v", "/", "s", "d", "c">>
DevSde == <<"/", "d", "e", "v", "/", "s", "d", "e">>
Sdd == <<"s", "d", "d">>
Sdf == <<"s", "d", "f">>
Kerryeon == <<"k", "e", "r", "r", "y", "e", "o", "n">>
V1527 == <<"1", "5", ".", "2", ".", "7">>

NodeChoices ==
    { [name |-> "n1", metadata |-> Some("/dev/sdb"), volumes |-> <<>>],
      [name |-> "n1", metadata |-> Some("/dev/sdb"), volumes |-> <<DevSdc>>],
      [name |-> "n1", metadata |-> None, volumes |-> <<Sdd, DevSde>>],
      [name |-> "n2", metadata |-> Some(""), volumes |-> <<Sdf>>] }

NodeLists(n) == UNION { [1..k -> NodeChoices] : k \in 0..n }

\* ceph.nodes: missing/null, or a list
NodesChoices(n) == {None} \cup { Some(l) : l \in NodeLists(n) }

ModeChoices == {"LVM", "RAW"}

\* ceph.osdsPerDevice: missing, or an int (0 is outside the documented domain)
OsdsChoices == {None, Some(0), Some(3)}

\* ceph.image: missing, or a dict whose user/version may be missing
ImageChoices ==
    { None,
      Some([user |-> None, version |-> None]),
      Some([user |-> Some(Kerryeon), version |-> Some(V1527)]),
      Some([user |-> Some(Kerryeon), version |-> None]),
      Some([user |-> None, version |-> Some(V1527)]),
      Some([user |-> Some(<<>>), version |-> Some(V1527)]) }

ImageChoicesNarrow ==
    { None, Some([user |-> Some(Kerryeon), version |-> Some(V1527)]) }

Hostnames == {"n1", "n2", "n3"}

LsblkChoices == { <<>>, <<Sdd>>, <<Sdd, Sdf>> }

-----------------------------------------------------------------------------
(* Inputs: the manifests served for the requested rook version *)

OperatorDocs ==
    << [kind |-> "ConfigMap",
        data |-> [ROOK_ENABLE_DISCOVERY_DAEMON |-> "false",
                  ROOK_CSI_ENABLE_RBD |-> "true"]],
       [kind |-> "Deployment"] >>

OperatorDocsNoData == << [kind |-> "ConfigMap"], [kind |-> "Deployment"] >>

TemplateImage == <<"c", "e", "p", "h", "/", "c", "e", "p", "h", ":", "v", "1", "5">>

\* cluster.yaml as shipped: storage.config holds only comments, so it loads as null
ClusterDoc ==
    [kind |-> "CephCluster",
     spec |-> [cephVersion |-> [image |-> TemplateImage, allowUnsupported |-> FALSE],
               mon |-> [count |-> 3, allowMultiplePerNode |-> FALSE],
               storage |-> [useAllNodes |-> TRUE, useAllDevices |-> TRUE,
                            config |-> None]]]

\* a cluster.yaml with a populated storage section
ClusterDocPopulated ==
    [kind |-> "CephCluster",
     spec |-> [cephVersion |-> [image |-> TemplateImage, allowUnsupported |-> FALSE],
               mon |-> [count |-> 3, allowMultiplePerNode |-> FALSE],
               storage |-> [useAllNodes |-> FALSE, useAllDevices |-> FALSE,
                            deviceFilter |-> "^sd.",
                            config |-> [databaseSizeMB |-> "1024"],
                            nodes |-> << [name |-> "old",
                                          config |-> [metadataDevice |-> Some("/dev/sda")],
                                          devices |-> <<>>] >>]]]

\* a cluster.yaml whose storage section has no config key
ClusterDocNoConfig ==
    [ClusterDoc EXCEPT !.spec.storage = [useAllNodes |-> TRUE, useAllDevices |-> TRUE]]

ClusterDocNoCephVersion ==
    [ClusterDoc EXCEPT !.spec = [mon |-> ClusterDoc.spec.mon,
                                 storage |-> ClusterDoc.spec.storage]]

ClusterDocNoStorage ==
    [ClusterDoc EXCEPT !.spec = [cephVersion |-> ClusterDoc.spec.cephVersion,
                                 mon |-> ClusterDoc.spec.mon]]

ClusterDocNoMon ==
    [ClusterDoc EXCEPT !.spec = [cephVersion |-> ClusterDoc.spec.cephVersion,
                                 storage |-> ClusterDoc.spec.storage]]

StorageClassDocs ==
    << [kind |-> "CephBlockPool",
        spec |-> [failureDomain |-> "host",
                  replicated |-> [size |-> 3, requireSafeReplicaSize |-> TRUE]]],
       [kind |-> "StorageClass"] >>

StorageClassDocsNoReplicated ==
    << [kind |-> "CephBlockPool", spec |-> [failureDomain |-> "host"]],
       [kind |-> "StorageClass"] >>

Manifests(o, c, s) == [operator |-> o, cluster |-> c, storageclass |-> s]

GoodTemplates ==
    { Manifests(OperatorDocs, ClusterDoc, StorageClassDocs),
      Manifests(OperatorDocs, ClusterDocPopulated, StorageClassDocs) }

TemplateChoices ==
    GoodTemplates \cup
    { Manifests(OperatorDocs, ClusterDocNoConfig, StorageClassDocs),
      Manifests(OperatorDocsNoData, ClusterDoc, StorageClassDocs),
      Manifests(OperatorDocs, ClusterDocNoCephVersion, StorageClassDocs),
      Manifests(OperatorDocs, ClusterDocNoStorage, StorageClassDocs),
      Manifests(OperatorDocs, ClusterDocNoMon, StorageClassDocs),
      Manifests(OperatorDocs, ClusterDoc, StorageClassDocsNoReplicated) }

DefaultTemplate == Manifests(OperatorDocs, ClusterDoc, StorageClassDocs)

-----------------------------------------------------------------------------
(* deploy: reading the parameters (lines 133-140) *)

\* ceph.get('image') or {}, then .get(k)
ImageGet(ceph, k) == IF ceph.image.some THEN ceph.image.val[k] ELSE None

\* ceph_image_user without the "or 'ceph'" default
ceph_image_user_NoDefault(ceph) == ImageGet(ceph, "user")

\* ceph_image.get('user') or 'ceph'
ceph_image_user(ceph) ==
    LET u == ImageGet(ceph, "user")
    IN  IF u.some /\ u.val # <<>> THEN u ELSE Some(Ceph)

\* ceph_image.get('version')
ceph_image_version(ceph) == ImageGet(ceph, "version")

\* ceph.get('osdsPerDevice') or 6
ceph_osds_per_device(ceph) ==
    IF ceph.osdsPerDevice.some /\ ceph.osdsPerDevice.val # 0
    THEN ceph.osdsPerDevice.val ELSE 6

\* "if ceph_nodes:" -- a list that is neither None nor empty
NodesGiven(ceph_nodes) == ceph_nodes.some /\ ceph_nodes.val # <<>>

-----------------------------------------------------------------------------
(* deploy: patching cluster.yaml (lines 164-245) *)

\* f'{ceph_image_user}/ceph:v{ceph_image_version}'
ImageRef(user, version) == user \o <<"/", "c", "e", "p", "h", ":", "v">> \o version

\* "if ceph_image_user is not None and ceph_image_version is not None"
PinImage(user, version) == user.some /\ version.some

\* the storage_devices list built for one node
DeviceEntries(node_volumes_, osds) ==
    [j \in 1..Len(node_volumes_) |->
        [name |-> node_volumes_[j],
         config |-> [osdsPerDevice |-> str(osds)]]]

\* the dict appended to storage['nodes'] for one node
NodeEntry(node, osds) ==
    [name |-> node.name,
     config |-> [metadataDevice |-> node.metadata],
     devices |-> DeviceEntries(node.volumes, osds)]

\* NodeLoop without the "if not node_volumes: continue" skip
RECURSIVE NodeLoop_NoSkip(_, _, _, _, _, _)
NodeLoop_NoSkip(ceph_nodes, k, ceph_mode, osds, storage_nodes, n) ==
    IF k > Len(ceph_nodes)
    THEN [returned |-> FALSE, nodes |-> storage_nodes, num_nodes |-> n]
    ELSE IF ceph_mode = "RAW"
    THEN [returned |-> TRUE, nodes |-> storage_nodes, num_nodes |-> n]
    ELSE NodeLoop_NoSkip(ceph_nodes, k + 1, ceph_mode, osds,
                         Append(storage_nodes, NodeEntry(ceph_nodes[k], osds)), n + 1)

\* NodeLoop keeping one entry per node name, the last one winning
RECURSIVE NodeLoop_LastWriteWins(_, _, _, _, _, _)
NodeLoop_LastWriteWins(ceph_nodes, k, ceph_mode, osds, storage_nodes, n) ==
    IF k > Len(ceph_nodes)
    THEN [returned |-> FALSE, nodes |-> storage_nodes, num_nodes |-> n]
    ELSE LET node == ceph_nodes[k]
             Other(e) == e.name # node.name
             kept == SelectSeq(storage_nodes, Other)
         IN  IF node.volumes = <<>>
             THEN NodeLoop_LastWriteWins(ceph_nodes, k + 1, ceph_mode, osds,
                                         storage_nodes, n)
             ELSE IF ceph_mode = "RAW"
             THEN [returned |-> TRUE, nodes |-> storage_nodes, num_nodes |-> n]
             ELSE NodeLoop_LastWriteWins(ceph_nodes, k + 1, ceph_mode, osds,
                                         Append(kept, NodeEntry(node, osds)),
                                         n + 1 - (Len(storage_nodes) - Len(kept)))

\* "for node in ceph_nodes": returned is TRUE when the loop hit "return False"
RECURSIVE NodeLoop(_, _, _, _, _, _)
NodeLoop(ceph_nodes, k, ceph_mode, osds, storage_nodes, n) ==
    IF k > Len(ceph_nodes)
    THEN [returned |-> FALSE, nodes |-> storage_nodes, num_nodes |-> n]
    ELSE LET node == ceph_nodes[k]
         IN  IF node.volumes = <<>>
             THEN NodeLoop(ceph_nodes, k + 1, ceph_mode, osds, storage_nodes, n)
             ELSE IF ceph_mode = "RAW"
             THEN [returned |-> TRUE, nodes |-> storage_nodes, num_nodes |-> n]
             ELSE IF DeviceEntries(node.volumes, osds) # <<>>
             THEN NodeLoop(ceph_nodes, k + 1, ceph_mode, osds,
                           Append(storage_nodes, NodeEntry(node, osds)), n + 1)
             ELSE NodeLoop(ceph_nodes, k + 1, ceph_mode, osds, storage_nodes, n)

\* num_nodes = min(3, num_nodes)
CapNodes(n) == min(3, n)

\* one monitor up to one node, three from two nodes on
MonCount_OneOrThree(n) == IF n <= 1 THEN 1 ELSE 3

\* num_mons = ((num_nodes + 1) // 2) * 2 - 1
MonCount(n) == ((n + 1) \div 2) * 2 - 1

\* the "if ceph_nodes:" branch
ExplicitNodes(storage, ceph_nodes, ceph_mode, osds) ==
    LET s1 == DictSet(DictSet(DictSet(storage, "useAllNodes", FALSE),
                              "useAllDevices", FALSE), "deviceFilter", "")
        s2 == IF "nodes" \in DOMAIN s1 THEN s1 ELSE DictSet(s1, "nodes", <<>>)
        loop == NodeLoop(ceph_nodes, 1, ceph_mode, osds, s2.nodes, 0)
    IN  [returned |-> loop.returned,
         storage |-> DictSet(s2, "nodes", loop.nodes),
         num_nodes |-> CapNodes(loop.num_nodes)]

\* AutoDiscovery adding osdsPerDevice to the config it finds instead of replacing it
AutoDiscovery_MergeConfig(storage, ceph_mode, osds) ==
    LET s1 == DictSet(DictSet(storage, "useAllNodes", TRUE), "useAllDevices", TRUE)
    IN  IF ceph_mode = "RAW"
        THEN [returned |-> TRUE, storage |-> s1, num_nodes |-> 0]
        ELSE [returned |-> FALSE,
              storage |-> DictSet(s1, "config",
                                  DictSet(s1.config, "osdsPerDevice", str(osds))),
              num_nodes |-> 1]

\* the "else" branch: nodes are not specified
AutoDiscovery(storage, ceph_mode, osds) ==
    LET s1 == DictSet(DictSet(storage, "useAllNodes", TRUE), "useAllDevices", TRUE)
    IN  IF ceph_mode = "RAW"
        THEN [returned |-> TRUE, storage |-> s1, num_nodes |-> 0]
        ELSE [returned |-> FALSE,
              storage |-> DictSet(s1, "config", [osdsPerDevice |-> str(osds)]),
              num_nodes |-> 1]

\* storage['config'] = {} when the key is missing or null
EnsureConfig(storage) ==
    IF "config" \notin DOMAIN storage \/ storage.config = None
    THEN DictSet(storage, "config", <<>>)
    ELSE storage

\* The whole "Modify cluster.yaml" block up to the dump.  status is "ok" (the
\* block ran to its end and context is what gets dumped), "False" (deploy
\* returned False) or "KeyError" (a key the code indexes is not in the document).
PatchCluster(context, ceph) ==
    LET spec == context.spec
        user == ceph_image_user(ceph)
        version == ceph_image_version(ceph)
        osds == ceph_osds_per_device(ceph)
        pin == PinImage(user, version)
        Stop(st) == [status |-> st, context |-> context, num_nodes |-> 0]
    IN  IF pin /\ "cephVersion" \notin DOMAIN spec THEN Stop("KeyError")
        ELSE IF "storage" \notin DOMAIN spec THEN Stop("KeyError")
        ELSE
        LET spec1 == IF pin
                     THEN DictSet(spec, "cephVersion",
                                  DictSet(spec.cephVersion, "image",
                                          ImageRef(user.val, version.val)))
                     ELSE spec
            storage == EnsureConfig(spec.storage)
            plan == IF NodesGiven(ceph.nodes)
                    THEN ExplicitNodes(storage, ceph.nodes.val, ceph.mode, osds)
                    ELSE AutoDiscovery(storage, ceph.mode, osds)
        IN  IF plan.returned THEN Stop("False")
            ELSE IF "mon" \notin DOMAIN spec THEN Stop("KeyError")
            ELSE [status |-> "ok",
                  context |->
                      DictSet(context, "spec",
                          DictSet(DictSet(spec1, "storage", plan.storage), "mon",
                                  DictSet(spec.mon, "count", MonCount(plan.num_nodes)))),
                  num_nodes |-> plan.num_nodes]

-----------------------------------------------------------------------------
(* Initial states: one invocation of the module *)

DeployParams(image, mode, osds, nodes) ==
    [rook |-> [version |-> "1.5.12"],
     ceph |-> [image |-> image, mode |-> mode, osdsPerDevice |-> osds,
               nodes |-> nodes]]

ResetParams(nodes) == [ceph |-> [nodes |-> nodes]]

\* every node list up to MaxNodes, on the well-formed manifests
InitDeployTopology ==
    \E image \in ImageChoicesNarrow, mode \in ModeChoices, osds \in OsdsChoices,
       nodes \in NodesChoices(MaxNodes), t \in GoodTemplates :
        /\ params = [gather_facts |-> FALSE,
                     deploy |-> Some(DeployParams(image, mode, osds, nodes)),
                     reset |-> None]
        /\ remote = t
        /\ hostname = "n1"
        /\ lsblk = <<>>

\* every image setting and manifest shape, on the short node lists
InitDeployCross ==
    \E image \in ImageChoices, mode \in ModeChoices, osds \in OsdsChoices,
       nodes \in NodesChoices(MaxNodesCross), t \in TemplateChoices :
        /\ params = [gather_facts |-> FALSE,
                     deploy |-> Some(DeployParams(image, mode, osds, nodes)),
                     reset |-> None]
        /\ remote = t
        /\ hostname = "n1"
        /\ lsblk = <<>>

InitReset ==
    \E nodes \in NodesChoices(MaxNodes), h \in Hostnames, l \in LsblkChoices :
        /\ params = [gather_facts |-> FALSE, deploy |-> None,
                     reset |-> Some(ResetParams(nodes))]
        /\ remote = DefaultTemplate
        /\ hostname = h
        /\ lsblk = IF NodesGiven(nodes) THEN <<>> ELSE l

InitOther ==
    \E g \in BOOLEAN :
        /\ params = [gather_facts |-> g, deploy |-> None, reset |-> None]
        /\ remote = DefaultTemplate
        /\ hostname = "n1"
        /\ lsblk = <<>>

Init ==
    /\ InitDeployTopology \/ InitDeployCross \/ InitReset \/ InitOther
    /\ pc = "run_task"
    /\ files = <<>>
    /\ written = {}
    /\ cmds = <<>>
    /\ idx = 0
    /\ num_nodes = 0
    /\ node_volumes = <<>>
    /\ rv = "none"
    /\ ret = [changed |-> FALSE, failed |-> FALSE, ansible_facts |-> <<>>]
    /\ err = ""
    /\ result = [kind |-> "none", changed |-> FALSE, failed |-> FALSE, msg |-> ""]

env == <<params, remote, hostname, lsblk>>

-----------------------------------------------------------------------------
(* run_task and main *)

gather_facts == <<>>

\* an exception leaves the running function; main catches it
Raise(e) ==
    /\ err' = e
    /\ pc' = "raise"

\* deploy()/reset() returned v: ret['changed'] = ret['changed'] or v; return ret
Return(v) ==
    /\ rv' = IF v THEN "True" ELSE "False"
    /\ ret' = [ret EXCEPT !.changed = ret.changed \/ v]
    /\ pc' = "exit"

RunTaskGatherFacts ==
    /\ pc = "run_task"
    /\ params.gather_facts
    /\ ret' = [ret EXCEPT !.ansible_facts = gather_facts]
    /\ pc' = "exit"
    /\ UNCHANGED <<env, files, written, cmds, idx, num_nodes, node_volumes, rv,
                   err, result>>

RunTaskDeploy ==
    /\ pc = "run_task"
    /\ ~params.gather_facts
    /\ params.deploy.some
    /\ ~ret.changed
    /\ pc' = "download"
    /\ UNCHANGED <<env, files, written, cmds, idx, num_nodes, node_volumes, rv,
                   ret, err, result>>

RunTaskReset ==
    /\ pc = "run_task"
    /\ ~params.gather_facts
    /\ ~params.deploy.some
    /\ params.reset.some
    /\ ~ret.changed
    /\ pc' = "reset_delete"
    /\ idx' = 1
    /\ UNCHANGED <<env, files, written, cmds, num_nodes, node_volumes, rv, ret,
                   err, result>>

RunTaskNothing ==
    /\ pc = "run_task"
    /\ ~params.gather_facts
    /\ ~params.deploy.some
    /\ ~params.reset.some
    /\ pc' = "exit"
    /\ UNCHANGED <<env, files, written, cmds, idx, num_nodes, node_volumes, rv,
                   ret, err, result>>

\* module.exit_json(**ret)
MainExit ==
    /\ pc = "exit"
    /\ result' = [kind |-> "exit_json", changed |-> ret.changed,
                  failed |-> ret.failed, msg |-> ""]
    /\ pc' = "done"
    /\ UNCHANGED <<env, files, written, cmds, idx, num_nodes, node_volumes, rv,
                   ret, err>>

\* except Exception as e: module.fail_json(msg=...)
MainFail ==
    /\ pc = "raise"
    /\ result' = [kind |-> "fail_json", changed |-> FALSE, failed |-> TRUE,
                  msg |-> err]
    /\ pc' = "done"
    /\ UNCHANGED <<env, files, written, cmds, idx, num_nodes, node_volumes, rv,
                   ret, err>>

-----------------------------------------------------------------------------
(* deploy *)

\* one os.system call: the program run and the file, resource or device it is
\* given (a sequence, so that every command compares with every other)
System(c, f) == [c |-> c, f |-> f]

\* "Download files": every manifest is fetched into SOURCE, or the fetch raises
DeployDownload ==
    /\ pc = "download"
    /\ \/ /\ files' = remote
          /\ pc' = "patch_operator"
          /\ UNCHANGED err
       \/ /\ Raise("MaxRetryError")
          /\ UNCHANGED files
    /\ UNCHANGED <<env, written, cmds, idx, num_nodes, node_volumes, rv, ret,
                   result>>

\* context[0]['data']['ROOK_ENABLE_DISCOVERY_DAEMON'] = 'true'
PatchOperator(context) ==
    [context EXCEPT ![1] =
        DictSet(@, "data", DictSet(@.data, "ROOK_ENABLE_DISCOVERY_DAEMON", "true"))]

\* "Modify operator.yaml"
DeployPatchOperator ==
    /\ pc = "patch_operator"
    /\ \/ /\ "data" \in DOMAIN files.operator[1]
          /\ files' = [files EXCEPT !.operator = PatchOperator(@)]
          /\ written' = written \cup {"operator"}
          /\ pc' = "patch_cluster"
          /\ UNCHANGED err
       \/ /\ "data" \notin DOMAIN files.operator[1]
          /\ Raise("KeyError")
          /\ UNCHANGED <<files, written>>
    /\ UNCHANGED <<env, cmds, idx, num_nodes, node_volumes, rv, ret, result>>

\* DeployPatchCluster with the early "return False" lost: the run goes on
DeployPatchCluster_NoReturn ==
    /\ pc = "patch_cluster"
    /\ LET r == PatchCluster(files.cluster, params.deploy.val.ceph)
       IN  \/ /\ r.status = "ok"
              /\ files' = [files EXCEPT !.cluster = r.context]
              /\ written' = written \cup {"cluster"}
              /\ num_nodes' = r.num_nodes
              /\ pc' = "patch_storageclass"
              /\ UNCHANGED <<rv, ret, err>>
           \/ /\ r.status = "False"
              /\ pc' = "patch_storageclass"
              /\ UNCHANGED <<files, written, num_nodes, rv, ret, err>>
           \/ /\ r.status = "KeyError"
              /\ Raise("KeyError")
              /\ UNCHANGED <<files, written, num_nodes, rv, ret>>
    /\ UNCHANGED <<env, cmds, idx, node_volumes, result>>

\* "Modify cluster.yaml"
DeployPatchCluster ==
    /\ pc = "patch_cluster"
    /\ LET r == PatchCluster(files.cluster, params.deploy.val.ceph)
       IN  \/ /\ r.status = "ok"
              /\ files' = [files EXCEPT !.cluster = r.context]
              /\ written' = written \cup {"cluster"}
              /\ num_nodes' = r.num_nodes
              /\ pc' = "patch_storageclass"
              /\ UNCHANGED <<rv, ret, err>>
           \/ /\ r.status = "False"
              /\ Return(FALSE)
              /\ UNCHANGED <<files, written, num_nodes, err>>
           \/ /\ r.status = "KeyError"
              /\ Raise("KeyError")
              /\ UNCHANGED <<files, written, num_nodes, rv, ret>>
    /\ UNCHANGED <<env, cmds, idx, node_volumes, result>>

\* replicated['size'] = num_nodes; replicated['requireSafeReplicaSize'] = num_nodes > 2
PatchStorageClass(context, n) ==
    [context EXCEPT ![1] =
        DictSet(@, "spec",
            DictSet(@.spec, "replicated",
                DictSet(DictSet(@.spec.replicated, "size", n),
                        "requireSafeReplicaSize", n > 2)))]

\* "Modify storageclass.yaml"
DeployPatchStorageClass ==
    /\ pc = "patch_storageclass"
    /\ \/ /\ "replicated" \in DOMAIN files.storageclass[1].spec
          /\ files' = [files EXCEPT !.storageclass = PatchStorageClass(@, num_nodes)]
          /\ written' = written \cup {"storageclass"}
          /\ pc' = "apply"
          /\ idx' = 1
          /\ UNCHANGED err
       \/ /\ "replicated" \notin DOMAIN files.storageclass[1].spec
          /\ Raise("KeyError")
          /\ UNCHANGED <<files, written, idx>>
    /\ UNCHANGED <<env, cmds, num_nodes, node_volumes, rv, ret, result>>

\* the commands of one pass of the "for file in FILES" apply loop
ApplyCommands(file) ==
    <<System("kubectl apply", file)>> \o
    (IF startswith(file, Operator)
     THEN <<System("kubectl rollout status", <<"deploy/rook-ceph-operator">>)>>
     ELSE <<>>)

\* "Apply": one pass of the loop
DeployApply ==
    /\ pc = "apply"
    /\ idx <= Len(FILES)
    /\ cmds' = cmds \o ApplyCommands(FILES[idx])
    /\ idx' = idx + 1
    /\ UNCHANGED <<env, pc, files, written, num_nodes, node_volumes, rv, ret, err,
                   result>>

\* after the loop: wait for the toolbox, mark the storage class default, return True
DeployFinish ==
    /\ pc = "apply"
    /\ idx > Len(FILES)
    /\ cmds' = cmds \o <<System("kubectl rollout status", <<"deploy/rook-ceph-tools">>),
                         System("kubectl patch storageclass", <<"rook-ceph-block">>)>>
    /\ Return(TRUE)
    /\ UNCHANGED <<env, files, written, idx, num_nodes, node_volumes, err, result>>

-----------------------------------------------------------------------------
(* reset *)

\* one pass of "for file in FILES: kubectl delete -f ..."
ResetDelete ==
    /\ pc = "reset_delete"
    /\ idx <= Len(FILES)
    /\ cmds' = Append(cmds, System("kubectl delete", FILES[idx]))
    /\ idx' = idx + 1
    /\ UNCHANGED <<env, pc, files, written, num_nodes, node_volumes, rv, ret, err,
                   result>>

\* dmsetup remove_all and the three rm -rf
ResetRemove ==
    /\ pc = "reset_delete"
    /\ idx > Len(FILES)
    /\ cmds' = cmds \o <<System("dmsetup remove_all", <<>>),
                         System("rm -rf", <<"/dev/ceph-*">>),
                         System("rm -rf", <<"/dev/mapper/ceph--*">>),
                         System("rm -rf", <<"/var/lib/rook/">>)>>
    /\ pc' = "reset_estimate"
    /\ UNCHANGED <<env, files, written, idx, num_nodes, node_volumes, rv, ret, err,
                   result>>

\* the positions of the nodes named node_name
Matches(ceph_nodes, node_name) ==
    { k \in 1..Len(ceph_nodes) : ceph_nodes[k].name = node_name }

FirstOf(S) == CHOOSE k \in S : \A j \in S : k <= j

\* NextMatch taking the last node of that name
NextMatch_Last(ceph_nodes, node_name) ==
    LET S == Matches(ceph_nodes, node_name)
    IN  ceph_nodes[CHOOSE k \in S : \A j \in S : j <= k]

\* next(node for node in ceph_nodes if node['name'] == node_name)
NextMatch(ceph_nodes, node_name) ==
    ceph_nodes[FirstOf(Matches(ceph_nodes, node_name))]

\* "estimate volumes"
ResetEstimate ==
    /\ pc = "reset_estimate"
    /\ LET ceph_nodes == params.reset.val.ceph.nodes
       IN  \/ /\ ~NodesGiven(ceph_nodes)
              /\ \/ /\ node_volumes' = lsblk
                    /\ pc' = "reset_wipe"
                    /\ idx' = 1
                    /\ UNCHANGED err
                 \/ /\ Raise("CalledProcessError")
                    /\ UNCHANGED <<node_volumes, idx>>
           \/ /\ NodesGiven(ceph_nodes)
              /\ Matches(ceph_nodes.val, hostname) # {}
              /\ node_volumes' = NextMatch(ceph_nodes.val, hostname).volumes
              /\ pc' = "reset_wipe"
              /\ idx' = 1
              /\ UNCHANGED err
           \/ /\ NodesGiven(ceph_nodes)
              /\ Matches(ceph_nodes.val, hostname) = {}
              /\ Raise("StopIteration")
              /\ UNCHANGED <<node_volumes, idx>>
    /\ UNCHANGED <<env, files, written, cmds, num_nodes, rv, ret, result>>

\* if not volume.startswith('/dev/'): volume = f'/dev/{volume}'
DevicePath(volume) == IF ~startswith(volume, Dev) THEN Dev \o volume ELSE volume

\* the five commands run on one device
WipeCommands(volume) ==
    <<System("wipefs", volume), System("sgdisk", volume), System("dd", volume),
      System("blkdiscard", volume), System("partprobe", volume)>>

\* "Cleanup LVMs": one pass of the loop
ResetWipe ==
    /\ pc = "reset_wipe"
    /\ idx <= Len(node_volumes)
    /\ cmds' = cmds \o WipeCommands(DevicePath(node_volumes[idx]))
    /\ idx' = idx + 1
    /\ UNCHANGED <<env, pc, files, written, num_nodes, node_volumes, rv, ret, err,
                   result>>

ResetFinish ==
    /\ pc = "reset_wipe"
    /\ idx > Len(node_volumes)
    /\ Return(TRUE)
    /\ UNCHANGED <<env, files, written, cmds, idx, num_nodes, node_volumes, err,
                   result>>

-----------------------------------------------------------------------------

Next ==
    \/ RunTaskGatherFacts
    \/ RunTaskDeploy
    \/ RunTaskReset
    \/ RunTaskNothing
    \/ MainExit
    \/ MainFail
    \/ DeployDownload
    \/ DeployPatchOperator
    \/ DeployPatchCluster
    \/ DeployPatchStorageClass
    \/ DeployApply
    \/ DeployFinish
    \/ ResetDelete
    \/ ResetRemove
    \/ ResetEstimate
    \/ ResetWipe
    \/ ResetFinish

Spec == Init /\ [][Next]_vars

-----------------------------------------------------------------------------
(* Vocabulary of the properties *)

IsDeploy == ~params.gather_facts /\ params.deploy.some
IsReset == ~params.gather_facts /\ ~params.deploy.some /\ params.reset.some

\* the ClusterSpec of a deploy invocation
SpecMode == params.deploy.val.ceph.mode
SpecNodes == params.deploy.val.ceph.nodes
SpecOsds == params.deploy.val.ceph.osdsPerDevice
SpecImage == params.deploy.val.ceph.image

ExplicitLvm == IsDeploy /\ SpecMode = "LVM" /\ NodesGiven(SpecNodes)
AutoLvm == IsDeploy /\ SpecMode = "LVM" /\ ~NodesGiven(SpecNodes)

HasVolumes(node) == node.volumes # <<>>

\* the input nodes with a non-empty volume list, in input order
Contributing == SelectSeq(SpecNodes.val, HasVolumes)

\* osdsPerDevice is in its documented domain: not given (6) or positive
OsdsInDomain == ~SpecOsds.some \/ SpecOsds.val > 0
OsdsValue == IF SpecOsds.some THEN SpecOsds.val ELSE 6

DigitValue(ch) == CHOOSE d \in 0..9 : Digits[d + 1] = ch

RECURSIVE ParseNat(_)
ParseNat(s) == IF Len(s) = 1 THEN DigitValue(s[1])
               ELSE 10 * ParseNat(SubSeq(s, 1, Len(s) - 1)) + DigitValue(s[Len(s)])

\* s is the decimal string of the natural number n
IsDecimalOf(s, n) ==
    /\ Len(s) >= 1
    /\ \A i \in 1..Len(s) : \E d \in 0..9 : Digits[d + 1] = s[i]
    /\ Len(s) > 1 => s[1] # "0"
    /\ ParseNat(s) = n

\* the documents as they are on disk
ClusterSpecDoc == files.cluster.spec
Storage == files.cluster.spec.storage
Replicated == files.storageclass[1].spec.replicated

\* the per-node list the template already held
TemplateNodes ==
    IF "nodes" \in DOMAIN remote.cluster.spec.storage
    THEN remote.cluster.spec.storage.nodes ELSE <<>>

\* the per-node entries deploy added to the cluster document
AddedNodes == SubSeq(Storage.nodes, Len(TemplateNodes) + 1, Len(Storage.nodes))

-----------------------------------------------------------------------------
(* C1: every deploy whose mode is RAW is rejected as unsupported, whether the
   nodes are absent, empty or listed (whatever their volume lists): cluster.yaml
   is never dumped patched, deploy never returns True, and a run that reaches
   exit_json has returned False. *)
C1_RawAlwaysRejected ==
    (IsDeploy /\ SpecMode = "RAW") =>
        /\ "cluster" \notin written
        /\ rv # "True"
        /\ (pc = "done" /\ result.kind = "exit_json") => rv = "False"

(* C2: in a deploy, a kubectl command is in the command log only when
   operator.yaml, cluster.yaml and storageclass.yaml have all been dumped
   patched; a deploy that returned False or raised has issued no command, in
   that state and in every later one. *)
C2_NoCommandUnlessPatched ==
    IsDeploy =>
        /\ cmds # <<>> => written = {"operator", "cluster", "storageclass"}
        /\ (rv = "False" \/ err # "") => cmds = <<>>

\* a deploy that ended on the RAW rejection after operator.yaml was rewritten
C2_Witness ==
    /\ IsDeploy
    /\ pc = "done"
    /\ rv = "False"
    /\ "operator" \in written
    /\ cmds = <<>>

NothingChanged == [kind |-> "exit_json", changed |-> FALSE, failed |-> FALSE, msg |-> ""]

(* C3: when deploy rejects the spec (returns False), the module's result is
   reported as failed, and is not the result of a run that changed nothing. *)
C3_RejectionIsVisible ==
    (IsDeploy /\ pc = "done" /\ rv = "False") =>
        /\ result.failed \/ result.kind = "fail_json"
        /\ result # NothingChanged

\* the number of input nodes with a non-empty volume list
ContributingCount ==
    Cardinality({ k \in 1..Len(SpecNodes.val) : SpecNodes.val[k].volumes # <<>> })

(* C4 as stated: after a successful LVM deploy with explicit nodes, c of them
   with volumes: nodeCount = min(3, c), mon.count is 1 when nodeCount <= 1 and
   3 otherwise, replicated.size = nodeCount and requireSafeReplicaSize is
   nodeCount > 2. *)
C4_MonCountOneOrThree ==
    (ExplicitLvm /\ rv = "True") =>
        /\ num_nodes = min(3, ContributingCount)
        /\ ClusterSpecDoc.mon.count = (IF num_nodes <= 1 THEN 1 ELSE 3)
        /\ ClusterSpecDoc.mon.count \in {1, 3}
        /\ Replicated.size = num_nodes
        /\ Replicated.requireSafeReplicaSize = (num_nodes > 2)

(* C4 amended: after a successful LVM deploy with explicit nodes, c of them
   with volumes: nodeCount = min(3, c); mon.count is the largest odd number
   not above nodeCount, that is 1 for nodeCount 1 or 2 and 3 for nodeCount 3,
   and it is -1 when no node has volumes (nodeCount 0); replicated.size =
   nodeCount and requireSafeReplicaSize is nodeCount > 2. *)
C4_MonCountLargestOdd ==
    (ExplicitLvm /\ rv = "True") =>
        /\ num_nodes = min(3, ContributingCount)
        /\ num_nodes = 0 => ClusterSpecDoc.mon.count = -1
        /\ num_nodes \in {1, 2} => ClusterSpecDoc.mon.count = 1
        /\ num_nodes = 3 => ClusterSpecDoc.mon.count = 3
        /\ Replicated.size = num_nodes
        /\ Replicated.requireSafeReplicaSize = (num_nodes > 2)

\* a finished deploy of exactly two nodes with volumes: one monitor, size 2
C4_Witness ==
    /\ ExplicitLvm
    /\ pc = "done"
    /\ rv = "True"
    /\ ContributingCount = 2
    /\ ClusterSpecDoc.mon.count = 1
    /\ Replicated.size = 2

\* the entry expected for an input node: its name, its metadata device as
\* given, one device per volume in order, each with the decimal osdsPerDevice
IsEntryOf(entry, node) ==
    /\ DOMAIN entry = {"name", "config", "devices"}
    /\ entry.name = node.name
    /\ entry.config = [metadataDevice |-> node.metadata]
    /\ Len(entry.devices) = Len(node.volumes)
    /\ \A j \in 1..Len(node.volumes) :
        /\ entry.devices[j].name = node.volumes[j]
        /\ DOMAIN entry.devices[j].config = {"osdsPerDevice"}
        /\ OsdsInDomain =>
              IsDecimalOf(entry.devices[j].config.osdsPerDevice, OsdsValue)

(* C5: once an LVM deploy with explicit nodes has dumped cluster.yaml, the
   entries it added to storage.nodes are the input nodes with a non-empty
   volume list, one each and in input order (so a node without volumes has no
   entry and does not count towards nodeCount); each entry carries the node's
   metadata device as given and one device per volume, in volume order, with
   osdsPerDevice the decimal string of the spec's value. *)
C5_EntriesAreContributingNodes ==
    (ExplicitLvm /\ "cluster" \in written) =>
        /\ SubSeq(Storage.nodes, 1, Len(TemplateNodes)) = TemplateNodes
        /\ Len(AddedNodes) = Len(Contributing)
        /\ \A k \in 1..Len(Contributing) : IsEntryOf(AddedNodes[k], Contributing[k])
        /\ num_nodes = min(3, Len(Contributing))

\* a finished deploy that skipped a node without volumes and kept two others
C5_Witness ==
    /\ ExplicitLvm
    /\ pc = "done"
    /\ rv = "True"
    /\ \E k \in 1..Len(SpecNodes.val) : SpecNodes.val[k].volumes = <<>>
    /\ Len(Contributing) = 2
    /\ Len(AddedNodes) = 2
    /\ Len(AddedNodes[2].devices) = 2

\* the positions of the input nodes called name that have volumes
NamedContributing(name) ==
    { k \in 1..Len(Contributing) : Contributing[k].name = name }

\* the positions of the added entries called name
NamedAdded(name) == { k \in 1..Len(AddedNodes) : AddedNodes[k].name = name }

ContributingNames == { Contributing[k].name : k \in 1..Len(Contributing) }

LastOf(S) == CHOOSE k \in S : \A j \in S : j <= k

(* C6 as stated: nodes that share a name are merged, the last one winning:
   the added entries hold one entry per name, carrying the metadata device and
   volumes of the last input node of that name, and a name counts once towards
   nodeCount. *)
C6_LastWriteWins ==
    (ExplicitLvm /\ "cluster" \in written) =>
        /\ \A name \in ContributingNames :
            /\ Cardinality(NamedAdded(name)) = 1
            /\ \A k \in NamedAdded(name) :
                  IsEntryOf(AddedNodes[k], Contributing[LastOf(NamedContributing(name))])
        /\ num_nodes = min(3, Cardinality(ContributingNames))

(* C6 amended: nodes that share a name are not merged: every input node with
   a non-empty volume list gets its own entry, so a name has as many entries
   as input nodes with volumes carry it, the i-th of them carrying the metadata
   device and volumes of the i-th such node, and every one of them counts
   towards nodeCount (before the cap at 3). *)
C6_DuplicatesKept ==
    (ExplicitLvm /\ "cluster" \in written) =>
        /\ \A name \in ContributingNames :
            /\ NamedAdded(name) = NamedContributing(name)
            /\ \A k \in NamedAdded(name) : IsEntryOf(AddedNodes[k], Contributing[k])
        /\ \A k \in 1..Len(AddedNodes) : AddedNodes[k].name \in ContributingNames
        /\ num_nodes = min(3, Len(Contributing))

\* a finished deploy of two nodes called n1 with different devices: two entries
C6_Witness ==
    /\ ExplicitLvm
    /\ pc = "done"
    /\ rv = "True"
    /\ Len(Contributing) = 2
    /\ Cardinality(ContributingNames) = 1
    /\ Contributing[1].volumes # Contributing[2].volumes
    /\ Cardinality(NamedAdded(Contributing[1].name)) = 2
    /\ num_nodes = 2

\* what the spec supplied under ceph.image
UserSupplied == SpecImage.some /\ SpecImage.val.user.some
VersionSupplied == SpecImage.some /\ SpecImage.val.version.some

\* spec.cephVersion is what the template held
CephVersionUntouched ==
    /\ ("cephVersion" \in DOMAIN ClusterSpecDoc)
         = ("cephVersion" \in DOMAIN remote.cluster.spec)
    /\ "cephVersion" \in DOMAIN ClusterSpecDoc =>
          ClusterSpecDoc.cephVersion = remote.cluster.spec.cephVersion

(* C7 as stated: in the cluster document deploy dumps, cephVersion.image is
   "{user}/ceph:v{version}" when both an image user and an image version were
   supplied, and the template's image is left as it was when either is missing. *)
C7_ImageIffUserAndVersion ==
    (IsDeploy /\ "cluster" \in written) =>
        IF UserSupplied /\ VersionSupplied
        THEN /\ "cephVersion" \in DOMAIN ClusterSpecDoc
             /\ ClusterSpecDoc.cephVersion.image =
                SpecImage.val.user.val \o <<"/", "c", "e", "p", "h", ":", "v">>
                    \o SpecImage.val.version.val
        ELSE CephVersionUntouched

\* the user the image is pulled from: the one supplied, or "ceph" when none
\* (or an empty one) was supplied
EffectiveUser ==
    IF UserSupplied /\ SpecImage.val.user.val # <<>>
    THEN SpecImage.val.user.val ELSE <<"c", "e", "p", "h">>

(* C7 amended: in the cluster document deploy dumps, cephVersion.image is
   "{u}/ceph:v{version}" if and only if an image version was supplied, u being
   the supplied image user, or "ceph" when no user (or an empty one) was
   supplied; when no version was supplied the template's image is left as it
   was, whether or not a user was supplied. *)
C7_ImageIffVersion ==
    (IsDeploy /\ "cluster" \in written) =>
        IF VersionSupplied
        THEN /\ "cephVersion" \in DOMAIN ClusterSpecDoc
             /\ ClusterSpecDoc.cephVersion.image =
                EffectiveUser \o <<"/", "c", "e", "p", "h", ":", "v">>
                    \o SpecImage.val.version.val
        ELSE CephVersionUntouched

\* only the version was supplied, and the image was pinned to ceph/ceph:v15.2.7
C7_Witness ==
    /\ IsDeploy
    /\ "cluster" \in written
    /\ VersionSupplied
    /\ ~UserSupplied
    /\ ClusterSpecDoc.cephVersion.image =
          <<"c", "e", "p", "h", "/", "c", "e", "p", "h", ":", "v",
            "1", "5", ".", "2", ".", "7">>

\* every key the code indexes is in the manifests
WellFormed ==
    /\ "data" \in DOMAIN remote.operator[1]
    /\ {"cephVersion", "storage", "mon"} \subseteq DOMAIN remote.cluster.spec
    /\ "replicated" \in DOMAIN remote.storageclass[1].spec

(* C8: an LVM deploy whose nodes are absent or empty is never rejected and, on
   manifests that have the fields the code indexes, never raises a KeyError;
   the cluster document it dumps has useAllNodes = useAllDevices = true,
   mon.count = 1, storage.config holding the osdsPerDevice setting alone (the
   decimal string of the spec's value) and the per-node list the template had;
   nodeCount = 1, replicated.size = 1 and requireSafeReplicaSize = false. *)
C8_AutoDiscoveryPlan ==
    AutoLvm =>
        /\ rv # "False"
        /\ WellFormed => err # "KeyError"
        /\ "cluster" \in written =>
            /\ Storage.useAllNodes = TRUE
            /\ Storage.useAllDevices = TRUE
            /\ num_nodes = 1
            /\ ClusterSpecDoc.mon.count = 1
            /\ DOMAIN Storage.config = {"osdsPerDevice"}
            /\ OsdsInDomain => IsDecimalOf(Storage.config.osdsPerDevice, OsdsValue)
            /\ ("nodes" \in DOMAIN Storage) = ("nodes" \in DOMAIN remote.cluster.spec.storage)
            /\ "nodes" \in DOMAIN Storage => Storage.nodes = TemplateNodes
        /\ "storageclass" \in written =>
            /\ Replicated.size = 1
            /\ Replicated.requireSafeReplicaSize = FALSE
        /\ rv = "True" => written = {"operator", "cluster", "storageclass"}

\* a finished deploy with an empty node list on a template with a populated
\* storage section
C8_Witness ==
    /\ AutoLvm
    /\ SpecNodes = Some(<<>>)
    /\ pc = "done"
    /\ rv = "True"
    /\ remote.cluster = ClusterDocPopulated
    /\ Storage.config = [osdsPerDevice |-> <<"3">>]

\* the positions in the command log where file is applied
AppliedAt(file) ==
    { i \in 1..Len(cmds) : cmds[i].c = "kubectl apply" /\ cmds[i].f = file }

IsApply(cmd) == cmd.c = "kubectl apply"

\* the kubectl apply commands, in the order issued
Applies == SelectSeq(cmds, IsApply)

ManifestOrder ==
    << <<"c", "r", "d", "s", ".", "y", "a", "m", "l">>,
       <<"c", "o", "m", "m", "o", "n", ".", "y", "a", "m", "l">>,
       <<"o", "p", "e", "r", "a", "t", "o", "r", ".", "y", "a", "m", "l">>,
       <<"c", "l", "u", "s", "t", "e", "r", ".", "y", "a", "m", "l">>,
       <<"s", "t", "o", "r", "a", "g", "e", "c", "l", "a", "s", "s", ".", "y", "a", "m", "l">>,
       <<"t", "o", "o", "l", "b", "o", "x", ".", "y", "a", "m", "l">> >>

OperatorRolloutAt ==
    { i \in 1..Len(cmds) : cmds[i] = System("kubectl rollout status",
                                            <<"deploy/rook-ceph-operator">>) }

(* C9: in a deploy the manifests are applied in the order crds, common,
   operator, cluster, storageclass, toolbox, none twice; the operator
   rollout-status wait comes after operator.yaml is applied and before
   cluster.yaml or any later manifest is; the default-storage-class patch
   comes after all six are applied; a deploy that returned True applied all
   six. *)
C9_ApplyOrder ==
    IsDeploy =>
        /\ Len(Applies) <= 6
        /\ \A k \in 1..Len(Applies) : Applies[k].f = ManifestOrder[k]
        /\ \A k \in 4..6 : \A i \in AppliedAt(ManifestOrder[k]) :
              \E j \in OperatorRolloutAt : j < i
        /\ \A j \in OperatorRolloutAt :
              \E i \in AppliedAt(ManifestOrder[3]) : i < j
        /\ \A p \in 1..Len(cmds) :
              cmds[p].c = "kubectl patch storageclass" =>
                  \A k \in 1..6 : \E i \in AppliedAt(ManifestOrder[k]) : i < p
        /\ rv = "True" =>
              /\ Len(Applies) = 6
              /\ \E p \in 1..Len(cmds) : cmds[p].c = "kubectl patch storageclass"

\* a finished successful deploy: six applies, the rollout wait, the patch
C9_Witness ==
    /\ IsDeploy
    /\ pc = "done"
    /\ rv = "True"
    /\ Len(Applies) = 6
    /\ OperatorRolloutAt # {}

ResetNodes == params.reset.val.ceph.nodes

WipeVerbs == {"wipefs", "sgdisk", "dd", "blkdiscard", "partprobe"}

\* the devices a wipe command has been run on
Wiped == { cmds[i].f : i \in { j \in 1..Len(cmds) : cmds[j].c \in WipeVerbs } }

\* the first input node called like the local host, if there is one
IsFirstLocal(k) ==
    /\ k \in 1..Len(ResetNodes.val)
    /\ ResetNodes.val[k].name = hostname
    /\ \A j \in 1..(k - 1) : ResetNodes.val[j].name # hostname

\* the device a volume name stands for: itself, or /dev/<name>
DeviceOf(v) ==
    IF Len(v) >= 5 /\ SubSeq(v, 1, 5) = <<"/", "d", "e", "v", "/">>
    THEN v ELSE <<"/", "d", "e", "v", "/">> \o v

DevicesOf(volumes) == { DeviceOf(volumes[j]) : j \in 1..Len(volumes) }

(* C10: in a reset with a non-empty node list, every device wiped is a volume
   of the first node called like the local host, and when the reset returns
   all of that node's volumes have been wiped; when no node is called like the
   local host nothing is ever wiped and the run ends in fail_json
   (StopIteration), after the six kubectl delete, dmsetup and the three rm -rf
   have run. *)
C10_WipeOnlyLocalNode ==
    (IsReset /\ NodesGiven(ResetNodes)) =>
        /\ \A k \in 1..Len(ResetNodes.val) : IsFirstLocal(k) =>
              /\ Wiped \subseteq DevicesOf(ResetNodes.val[k].volumes)
              /\ rv = "True" => Wiped = DevicesOf(ResetNodes.val[k].volumes)
              /\ err = ""
        /\ (~ \E k \in 1..Len(ResetNodes.val) : IsFirstLocal(k)) =>
              /\ Wiped = {}
              /\ rv = "none"
              /\ pc = "done" =>
                    /\ result.kind = "fail_json"
                    /\ err = "StopIteration"
                    /\ Len(cmds) = 10
                    /\ \A i \in 1..6 : cmds[i].c = "kubectl delete"

\* a finished reset on n1 where two nodes are called n1 and a third node has
\* a volume of its own
C10_Witness ==
    /\ IsReset
    /\ NodesGiven(ResetNodes)
    /\ pc = "done"
    /\ rv = "True"
    /\ hostname = "n1"
    /\ Cardinality(Matches(ResetNodes.val, "n1")) = 2
    /\ Matches(ResetNodes.val, "n2") # {}
    /\ ResetNodes.val[LastOf(Matches(ResetNodes.val, "n1"))].volumes = <<Sdd, DevSde>>
    /\ Wiped = {DevSdc}

====
